---- MODULE Spec2Model ----
(***************************************************************************)
(* FileManager (src/src/FileManager.ts): a stateful file-selection and     *)
(* batch-manipulation engine.  The state is the engine's three fields; the *)
(* Explorer, the Manipulator and the Random provider are the environment,  *)
(* whose answers are the inputs of the actions.  Every public method is    *)
(* one action.  The variable `last` is an observation of the last call:    *)
(* its arguments, the state it started from, how it ended, what it         *)
(* returned and the collaborator calls it made, in order.  It also         *)
(* remembers the directory the present entries were listed from.           *)
(***************************************************************************)
EXTENDS Integers, Sequences, FiniteSets, TLC

VARIABLES currentDirectory, entries, selectedEntries, last

vars == <<currentDirectory, entries, selectedEntries, last>>

(***************************************************************************)
(* Bounds of the model.                                                    *)
(***************************************************************************)
\* largest number of consecutive `exists = true` answers of the Explorer
MaxCollisions == 12
\* the numbering counters told apart when resolution is run step by step;
\* larger counters are remembered as this one
MaxNumbered == 3

(***************************************************************************)
(* Program constants.                                                      *)
(***************************************************************************)
\* the adjectives with a noun in the first place
ADJECTIVESWithNoun ==
  << "soleil", "petit", "rouge", "bleu", "vert",
     "rapide", "lent", "brillant", "sombre", "clair",
     "ancien", "nouveau", "fort", "doux", "vif",
     "calme", "noble", "simple", "rare", "libre" >>

ADJECTIVES ==
  << "grand", "petit", "rouge", "bleu", "vert",
     "rapide", "lent", "brillant", "sombre", "clair",
     "ancien", "nouveau", "fort", "doux", "vif",
     "calme", "noble", "simple", "rare", "libre" >>

NOUNS ==
  << "soleil", "lune", "etoile", "montagne", "riviere",
     "foret", "ocean", "desert", "jardin", "chateau",
     "dragon", "phoenix", "tigre", "aigle", "dauphin",
     "cristal", "diamant", "saphir", "rubis", "emeraude" >>

\* the characters of the adjectives, one string per character
AdjectiveLetters ==
  <<
     << "g", "r", "a", "n", "d" >>,
     << "p", "e", "t", "i", "t" >>,
     << "r", "o", "u", "g", "e" >>,
     << "b", "l", "e", "u" >>,
     << "v", "e", "r", "t" >>,
     << "r", "a", "p", "i", "d", "e" >>,
     << "l", "e", "n", "t" >>,
     << "b", "r", "i", "l", "l", "a", "n", "t" >>,
     << "s", "o", "m", "b", "r", "e" >>,
     << "c", "l", "a", "i", "r" >>,
     << "a", "n", "c", "i", "e", "n" >>,
     << "n", "o", "u", "v", "e", "a", "u" >>,
     << "f", "o", "r", "t" >>,
     << "d", "o", "u", "x" >>,
     << "v", "i", "f" >>,
     << "c", "a", "l", "m", "e" >>,
     << "n", "o", "b", "l", "e" >>,
     << "s", "i", "m", "p", "l", "e" >>,
     << "r", "a", "r", "e" >>,
     << "l", "i", "b", "r", "e" >>
  >>

\* the characters of the nouns
NounLetters ==
  <<
     << "s", "o", "l", "e", "i", "l" >>,
     << "l", "u", "n", "e" >>,
     << "e", "t", "o", "i", "l", "e" >>,
     << "m", "o", "n", "t", "a", "g", "n", "e" >>,
     << "r", "i", "v", "i", "e", "r", "e" >>,
     << "f", "o", "r", "e", "t" >>,
     << "o", "c", "e", "a", "n" >>,
     << "d", "e", "s", "e", "r", "t" >>,
     << "j", "a", "r", "d", "i", "n" >>,
     << "c", "h", "a", "t", "e", "a", "u" >>,
     << "d", "r", "a", "g", "o", "n" >>,
     << "p", "h", "o", "e", "n", "i", "x" >>,
     << "t", "i", "g", "r", "e" >>,
     << "a", "i", "g", "l", "e" >>,
     << "d", "a", "u", "p", "h", "i", "n" >>,
     << "c", "r", "i", "s", "t", "a", "l" >>,
     << "d", "i", "a", "m", "a", "n", "t" >>,
     << "s", "a", "p", "h", "i", "r" >>,
     << "r", "u", "b", "i", "s" >>,
     << "e", "m", "e", "r", "a", "u", "d", "e" >>
  >>

\* the characters a lowercase token is made of
Lowercase ==
  { "a", "b", "c", "d", "e", "f", "g", "h", "i", "j", "k", "l", "m",
    "n", "o", "p", "q", "r", "s", "t", "u", "v", "w", "x", "y", "z" }

RECURSIVE Spell(_)
\* the string made of the characters of cs
Spell(cs) == IF cs = <<>> THEN "" ELSE Head(cs) \o Spell(Tail(cs))

\* the bound of the retry loop: for (attempt = 0; attempt < 10; attempt++)
MaxAttempts == 10

\* `currentDirectory: string | null = null`
NULL == "<null>"

\* an omitted optional argument (destinationPath?: string)
UNDEFINED == "<undefined>"

(***************************************************************************)
(* The environment's value sets.                                           *)
(***************************************************************************)
\* the names a directory may hold, in the order the Explorer reports them
DirectoryOrder == << "b.txt", "c.txt", "a.txt" >>

Names == { DirectoryOrder[i] : i \in 1..Len(DirectoryOrder) }

\* a name no listing ever contains
Unknown == "inconnu.txt"

Dirs == { "/a", "/b" }

\* the destinations a caller passes: none, a path, the empty string
Destinations == { UNDEFINED, "/dest", "" }

Range(s) == { s[i] : i \in 1..Len(s) }

\* what an Explorer can list: the names a directory holds at the time of
\* the call, each once
Listings ==
  { SelectSeq(DirectoryOrder, LAMBDA n : n \in present) : present \in SUBSET Names }

\* the message of the error the Explorer raises for a path it cannot list
ExplorerError(p) == "ENOENT: no such file or directory, scandir '" \o p \o "'"

\* the message of the error a Manipulator primitive raises
ManipulatorError(fn, p) == fn \o " failed: '" \o p \o "'"

\* the i-th answer (i >= 1) of an Explorer whose first m answers to
\* exists() are true, the next one false, and the later ones `tail`
ExistsAnswer(m, tail, i) == IF i <= m THEN TRUE ELSE IF i = m + 1 THEN FALSE ELSE tail

\* the t-th result (t >= 1) of nextInt(max) of a Random provider
NextInt(seed, stride, t, max) == (seed + stride * (t - 1)) % max

Seeds == { 3, 19 }
Strides == { 0, 1, 7 }

(***************************************************************************)
(* Library functions the engine uses.                                      *)
(***************************************************************************)
\* path.join(a, b) for a normalised directory a and a plain name b
Join(a, b) == a \o "/" \o b

Digits == << "0", "1", "2", "3", "4", "5", "6", "7", "8", "9" >>

RECURSIVE NumberToString(_)
\* `${counter}` for a non-negative counter
NumberToString(n) ==
  IF n < 10 THEN Digits[n + 1]
  ELSE NumberToString(n \div 10) \o Digits[(n % 10) + 1]

\* Array.prototype.includes
Includes(s, e) == \E i \in 1..Len(s) : s[i] = e

\* an add that appends whether or not the element is there (Array.push)
SetAddAlways(s, e) == Append(s, e)

\* Set.prototype.add on an insertion-ordered set
SetAdd(s, e) == IF Includes(s, e) THEN s ELSE Append(s, e)

\* a delete that empties the set
SetDeleteClears(s, e) == <<>>

\* a delete that removes nothing
SetDeleteNothing(s, e) == s

\* Set.prototype.delete on an insertion-ordered set
SetDelete(s, e) == SelectSeq(s, LAMBDA x : x # e)

\* a filter that also turns the kept entries round
FilterOutReversed(es, entry) ==
  LET kept == SelectSeq(es, LAMBDA e : e # entry)
  IN  [i \in 1..Len(kept) |-> kept[Len(kept) + 1 - i]]

\* a filter that keeps the entry
FilterOutNothing(es, entry) == es

\* this.entries.filter((e) => e !== entry)
FilterOut(es, entry) == SelectSeq(es, LAMBDA e : e # entry)

\* a selectAll that stops after the first entry
AddAllFirst(sel, es) == IF es = <<>> THEN sel ELSE SetAdd(sel, Head(es))

RECURSIVE AddAll(_, _)
\* this.entries.forEach((e) => this.selectedEntries.add(e))
AddAll(sel, es) ==
  IF es = <<>> THEN sel ELSE AddAll(SetAdd(sel, Head(es)), Tail(es))

\* the succeeded entries are left selected
DeleteAllSkips(sel, succeeded) == sel

\* every entry is deselected, the failed ones too
DeleteAllClears(sel, succeeded) == <<>>

RECURSIVE DeleteAllKeepsFirst(_, _)
\* the first succeeded entry is left selected
DeleteAllKeepsFirst(sel, succeeded) ==
  IF Len(succeeded) <= 1 THEN sel
  ELSE DeleteAllKeepsFirst(SetDelete(sel, succeeded[2]),
                           << Head(succeeded) >> \o Tail(Tail(succeeded)))

RECURSIVE DeleteAll(_, _)
\* for (const s of succeeded) this.selectedEntries.delete(s)
DeleteAll(sel, succeeded) ==
  IF succeeded = <<>> THEN sel
  ELSE DeleteAll(SetDelete(sel, Head(succeeded)), Tail(succeeded))

(***************************************************************************)
(* Records of the observation.                                             *)
(***************************************************************************)
Call(fn, a, b, n, ret) == [fn |-> fn, a |-> a, b |-> b, n |-> n, ret |-> ret]

FileOperationError(fileName, errorMessage, operationType) ==
  [fileName |-> fileName, errorMessage |-> errorMessage,
   operationType |-> operationType]

State == [dir |-> currentDirectory, entries |-> entries, sel |-> selectedEntries]

NoRetry == [is |-> FALSE, errors |-> <<>>]

\* the environment of a call that consults neither Random nor exists
NoEnv == [seed |-> 0, stride |-> 0, m |-> 0, tail |-> FALSE]

BatchOps == { "copySelection", "moveSelection", "deleteSelection" }

\* whether a call of `op` re-invokes the batch operation that has just
\* returned, and the names that operation reported in its errors
RetryOf(op) ==
  IF op \in BatchOps /\ last.op = op /\ last.outcome = "returned"
  THEN [is |-> TRUE,
        errors |-> [i \in 1..Len(last.errors) |-> last.errors[i].fileName]]
  ELSE NoRetry

\* the observation of a call that threw `error`
Threw(op, arg, env, error, calls) ==
  [op |-> op, arg |-> arg, env |-> env, pre |-> State,
   outcome |-> "threw", error |-> error,
   hasDestination |-> FALSE, destinationPath |-> "", errors |-> <<>>,
   listing |-> <<>>, calls |-> calls, retry |-> RetryOf(op),
   listedFrom |-> last.listedFrom]

\* the observation of a call that returned; listing is what the Explorer
\* listed to it, if it asked
Returned(op, arg, listing, calls) ==
  [op |-> op, arg |-> arg, env |-> NoEnv, pre |-> State,
   outcome |-> "returned", error |-> "",
   hasDestination |-> FALSE, destinationPath |-> "", errors |-> <<>>,
   listing |-> listing, calls |-> calls, retry |-> NoRetry,
   listedFrom |-> IF op = "listEntries" THEN arg ELSE last.listedFrom]

\* the observation of a batch operation that returned a result
Result(op, arg, env, hasDestination, destinationPath, errors, calls) ==
  [op |-> op, arg |-> arg, env |-> env, pre |-> State,
   outcome |-> "returned", error |-> "",
   hasDestination |-> hasDestination, destinationPath |-> destinationPath,
   errors |-> errors, listing |-> <<>>, calls |-> calls, retry |-> RetryOf(op),
   listedFrom |-> last.listedFrom]

NothingSelected == "Aucun fichier sélectionné."

NotFound(entryName) ==
  "L'entrée '" \o entryName \o "' n'existe pas dans le répertoire courant."

\* a clear that is not made
ClearNothing(sel) == sel

\* Set.prototype.clear
Clear(sel) == <<>>

\* an emptiness check that never fires
IsEmptyNever(sel) == FALSE

\* this.selectedEntries.size === 0
IsEmpty(sel) == Len(sel) = 0

(***************************************************************************)
(* Destination resolution.  env is the environment of one call: the        *)
(* Random provider's stream (seed, stride) and the Explorer's answers to   *)
(* exists (m, tail); the answer to a probe is the next one of the Explorer.*)
(***************************************************************************)
Probes(calls) == Cardinality({ k \in 1..Len(calls) : calls[k].fn = "exists" })

Draws(calls) == Cardinality({ k \in 1..Len(calls) : calls[k].fn = "nextInt" })

\* this.random.nextInt(max), as the next call after `calls`
RandomNextInt(env, calls, max) ==
  NextInt(env.seed, env.stride, Draws(calls) + 1, max)

\* this.explorer.exists(p), as the next call after `calls`
ExplorerExists(env, calls) == ExistsAnswer(env.m, env.tail, Probes(calls) + 1)

BoolToString(b) == IF b THEN "true" ELSE "false"

RECURSIVE NumberingFromZero(_, _, _, _, _)
\* the numbering with the counter incremented after the name is built from
\* one less: it probes `${name}-0` first
NumberingFromZero(dir, env, name, counter, calls) ==
  LET numberedName == name \o "-" \o NumberToString(counter - 1)
      fullPath == Join(dir, numberedName)
      found == ExplorerExists(env, calls)
      calls2 == Append(calls, Call("exists", fullPath, "", 0, BoolToString(found)))
  IN  IF found
      THEN NumberingFromZero(dir, env, name, counter + 1, calls2)
      ELSE [path |-> fullPath, calls |-> calls2]

RECURSIVE NumberingReturnsNext(_, _, _, _, _)
\* the numbering returning the name of the counter as incremented, a path
\* it has not probed
NumberingReturnsNext(dir, env, name, counter, calls) ==
  LET numberedName == name \o "-" \o NumberToString(counter)
      fullPath == Join(dir, numberedName)
      found == ExplorerExists(env, calls)
      calls2 == Append(calls, Call("exists", fullPath, "", 0, BoolToString(found)))
  IN  IF found
      THEN NumberingReturnsNext(dir, env, name, counter + 1, calls2)
      ELSE [path |-> Join(dir, name \o "-" \o NumberToString(counter + 1)),
            calls |-> calls2]

RECURSIVE Numbering(_, _, _, _, _)
\* do { numberedName = `${name}-${counter}`; counter++ } while (exists(...))
Numbering(dir, env, name, counter, calls) ==
  LET numberedName == name \o "-" \o NumberToString(counter)
      fullPath == Join(dir, numberedName)
      found == ExplorerExists(env, calls)
      calls2 == Append(calls, Call("exists", fullPath, "", 0, BoolToString(found)))
  IN  IF found
      THEN Numbering(dir, env, name, counter + 1, calls2)
      ELSE [path |-> fullPath, calls |-> calls2]

RECURSIVE RandomAttemptsNounFirst(_, _, _, _, _)
\* the retry loop drawing the noun before the adjective
RandomAttemptsNounFirst(dir, env, attempt, name, calls) ==
  IF attempt < MaxAttempts
  THEN LET j == RandomNextInt(env, calls, Len(NOUNS))
           calls1 == Append(calls, Call("nextInt", "", "", j, ""))
           i == RandomNextInt(env, calls1, Len(ADJECTIVES))
           calls2 == Append(calls1, Call("nextInt", "", "", i, ""))
           name2 == ADJECTIVES[i + 1] \o "-" \o NOUNS[j + 1]
           fullPath == Join(dir, name2)
           found == ExplorerExists(env, calls2)
           calls3 == Append(calls2, Call("exists", fullPath, "", 0, BoolToString(found)))
       IN  IF ~found
           THEN [path |-> fullPath, calls |-> calls3]
           ELSE RandomAttemptsNounFirst(dir, env, attempt + 1, name2, calls3)
  ELSE Numbering(dir, env, name, 1, calls)

RECURSIVE RandomAttempts(_, _, _, _, _)
\* for (let attempt = 0; attempt < 10; attempt++) { ... }, then the numbering
RandomAttempts(dir, env, attempt, name, calls) ==
  IF attempt < MaxAttempts
  THEN LET i == RandomNextInt(env, calls, Len(ADJECTIVES))
           calls1 == Append(calls, Call("nextInt", "", "", i, ""))
           j == RandomNextInt(env, calls1, Len(NOUNS))
           calls2 == Append(calls1, Call("nextInt", "", "", j, ""))
           adj == ADJECTIVES[i + 1]
           noun == NOUNS[j + 1]
           name2 == adj \o "-" \o noun
           fullPath == Join(dir, name2)
           found == ExplorerExists(env, calls2)
           calls3 == Append(calls2, Call("exists", fullPath, "", 0, BoolToString(found)))
       IN  IF ~found
           THEN [path |-> fullPath, calls |-> calls3]
           ELSE RandomAttempts(dir, env, attempt + 1, name2, calls3)
  ELSE Numbering(dir, env, name, 1, calls)

\* if (destinationPath): undefined and the empty string are falsy
Truthy(destinationPath) == destinationPath # UNDEFINED /\ destinationPath # ""

resolveDestination(destinationPath, dir, env) ==
  IF Truthy(destinationPath)
  THEN [path |-> destinationPath, calls |-> <<>>]
  ELSE RandomAttempts(dir, env, 0, "", <<>>)

(***************************************************************************)
(* The per-entry loops.  fails is the set of entries whose primitive       *)
(* throws; acc carries errors, succeeded, this.entries and the calls made. *)
(***************************************************************************)
RECURSIVE CopyLoopRemoving(_, _, _, _, _)
\* the copy loop with the move loop's removal from this.entries
CopyLoopRemoving(snapshot, dir, resolved, fails, acc) ==
  IF snapshot = <<>> THEN acc
  ELSE LET entry == Head(snapshot)
           source == Join(dir, entry)
           target == Join(resolved, entry)
           msg == ManipulatorError("copy", source)
       IN  IF entry \notin fails
           THEN CopyLoopRemoving(Tail(snapshot), dir, resolved, fails,
                  [acc EXCEPT !.succeeded = Append(@, entry),
                              !.entries = FilterOut(@, entry),
                              !.calls = Append(@, Call("copy", source, target, 0, "ok"))])
           ELSE CopyLoopRemoving(Tail(snapshot), dir, resolved, fails,
                  [acc EXCEPT !.errors = Append(@, FileOperationError(entry, msg, "copy")),
                              !.calls = Append(@, Call("copy", source, target, 0, msg))])

RECURSIVE CopyLoop(_, _, _, _, _)
CopyLoop(snapshot, dir, resolved, fails, acc) ==
  IF snapshot = <<>> THEN acc
  ELSE LET entry == Head(snapshot)
           source == Join(dir, entry)
           target == Join(resolved, entry)
           msg == ManipulatorError("copy", source)
       IN  IF entry \notin fails
           THEN CopyLoop(Tail(snapshot), dir, resolved, fails,
                  [acc EXCEPT !.succeeded = Append(@, entry),
                              !.calls = Append(@, Call("copy", source, target, 0, "ok"))])
           ELSE CopyLoop(Tail(snapshot), dir, resolved, fails,
                  [acc EXCEPT !.errors = Append(@, FileOperationError(entry, msg, "copy")),
                              !.calls = Append(@, Call("copy", source, target, 0, msg))])

RECURSIVE MoveLoopCopyKind(_, _, _, _, _)
\* the move loop reporting its failures as failures of a copy
MoveLoopCopyKind(snapshot, dir, resolved, fails, acc) ==
  IF snapshot = <<>> THEN acc
  ELSE LET entry == Head(snapshot)
           source == Join(dir, entry)
           target == Join(resolved, entry)
           msg == ManipulatorError("move", source)
       IN  IF entry \notin fails
           THEN MoveLoopCopyKind(Tail(snapshot), dir, resolved, fails,
                  [acc EXCEPT !.succeeded = Append(@, entry),
                              !.entries = FilterOut(@, entry),
                              !.calls = Append(@, Call("move", source, target, 0, "ok"))])
           ELSE MoveLoopCopyKind(Tail(snapshot), dir, resolved, fails,
                  [acc EXCEPT !.errors = Append(@, FileOperationError(entry, msg, "copy")),
                              !.calls = Append(@, Call("move", source, target, 0, msg))])

RECURSIVE MoveLoop(_, _, _, _, _)
MoveLoop(snapshot, dir, resolved, fails, acc) ==
  IF snapshot = <<>> THEN acc
  ELSE LET entry == Head(snapshot)
           source == Join(dir, entry)
           target == Join(resolved, entry)
           msg == ManipulatorError("move", source)
       IN  IF entry \notin fails
           THEN MoveLoop(Tail(snapshot), dir, resolved, fails,
                  [acc EXCEPT !.succeeded = Append(@, entry),
                              !.entries = FilterOut(@, entry),
                              !.calls = Append(@, Call("move", source, target, 0, "ok"))])
           ELSE MoveLoop(Tail(snapshot), dir, resolved, fails,
                  [acc EXCEPT !.errors = Append(@, FileOperationError(entry, msg, "move")),
                              !.calls = Append(@, Call("move", source, target, 0, msg))])

RECURSIVE DeleteLoopAborting(_, _, _, _)
\* the delete loop leaving at the first primitive that throws
DeleteLoopAborting(snapshot, dir, fails, acc) ==
  IF snapshot = <<>> THEN acc
  ELSE LET entry == Head(snapshot)
           fullPath == Join(dir, entry)
           msg == ManipulatorError("delete", fullPath)
       IN  IF entry \notin fails
           THEN DeleteLoopAborting(Tail(snapshot), dir, fails,
                  [acc EXCEPT !.succeeded = Append(@, entry),
                              !.entries = FilterOut(@, entry),
                              !.calls = Append(@, Call("delete", fullPath, "", 0, "ok"))])
           ELSE [acc EXCEPT !.errors = Append(@, FileOperationError(entry, msg, "delete")),
                            !.calls = Append(@, Call("delete", fullPath, "", 0, msg))]

RECURSIVE DeleteLoopKeepingEntries(_, _, _, _)
\* the delete loop without the removal from this.entries
DeleteLoopKeepingEntries(snapshot, dir, fails, acc) ==
  IF snapshot = <<>> THEN acc
  ELSE LET entry == Head(snapshot)
           fullPath == Join(dir, entry)
           msg == ManipulatorError("delete", fullPath)
       IN  IF entry \notin fails
           THEN DeleteLoopKeepingEntries(Tail(snapshot), dir, fails,
                  [acc EXCEPT !.succeeded = Append(@, entry),
                              !.calls = Append(@, Call("delete", fullPath, "", 0, "ok"))])
           ELSE DeleteLoopKeepingEntries(Tail(snapshot), dir, fails,
                  [acc EXCEPT !.errors = Append(@, FileOperationError(entry, msg, "delete")),
                              !.calls = Append(@, Call("delete", fullPath, "", 0, msg))])

RECURSIVE DeleteLoop(_, _, _, _)
DeleteLoop(snapshot, dir, fails, acc) ==
  IF snapshot = <<>> THEN acc
  ELSE LET entry == Head(snapshot)
           fullPath == Join(dir, entry)
           msg == ManipulatorError("delete", fullPath)
       IN  IF entry \notin fails
           THEN DeleteLoop(Tail(snapshot), dir, fails,
                  [acc EXCEPT !.succeeded = Append(@, entry),
                              !.entries = FilterOut(@, entry),
                              !.calls = Append(@, Call("delete", fullPath, "", 0, "ok"))])
           ELSE DeleteLoop(Tail(snapshot), dir, fails,
                  [acc EXCEPT !.errors = Append(@, FileOperationError(entry, msg, "delete")),
                              !.calls = Append(@, Call("delete", fullPath, "", 0, msg))])

\* const errors = []; const succeeded = []; with the calls made so far
Start(calls) ==
  [errors |-> <<>>, succeeded |-> <<>>, entries |-> entries, calls |-> calls]

(***************************************************************************)
(* The environments of one call.                                           *)
(***************************************************************************)
\* every stream and every answer sequence of the bounds
Envs ==
  [seed : Seeds, stride : Strides, m : 0..MaxCollisions, tail : BOOLEAN]

\* the environments the batch operations are run in: the first name is
\* free, or every random name and the first numbered name are taken
BatchEnvs ==
  { [seed |-> 3, stride |-> 1, m |-> k, tail |-> FALSE]
    : k \in { 0, MaxAttempts + 1 } }

\* the environments that differ in what a call with this destination sees
EnvsFor(destinationPath, all) ==
  IF Truthy(destinationPath) THEN { NoEnv } ELSE all

(***************************************************************************)
(* The state machine.                                                      *)
(***************************************************************************)
Init ==
  /\ currentDirectory = NULL
  /\ entries = <<>>
  /\ selectedEntries = <<>>
  /\ last = [op |-> "constructor", arg |-> "", env |-> NoEnv,
             pre |-> [dir |-> NULL, entries |-> <<>>, sel |-> <<>>],
             outcome |-> "returned", error |-> "",
             hasDestination |-> FALSE, destinationPath |-> "",
             errors |-> <<>>, listing |-> <<>>, calls |-> <<>>,
             retry |-> NoRetry, listedFrom |-> NULL]

\* listEntries without the assignment of line 88
listEntriesKeepingDirectory ==
  \E directoryPath \in Dirs, ok \in BOOLEAN, listing \in Listings :
     /\ ok \/ listing = <<>>
     /\ UNCHANGED currentDirectory
     /\ IF ok
        THEN /\ entries' = listing
             /\ selectedEntries' = Clear(selectedEntries)
             /\ last' = Returned("listEntries", directoryPath, listing,
                          << Call("listEntries", directoryPath, "", 0, "ok") >>)
        ELSE /\ UNCHANGED <<entries, selectedEntries>>
             /\ last' = Threw("listEntries", directoryPath, NoEnv,
                          ExplorerError(directoryPath),
                          << Call("listEntries", directoryPath, "", 0,
                                  ExplorerError(directoryPath)) >>)

\* listEntries(directoryPath); the Explorer lists `listing` or throws
listEntries ==
  \E directoryPath \in Dirs, ok \in BOOLEAN, listing \in Listings :
     /\ ok \/ listing = <<>>
     /\ currentDirectory' = directoryPath
     /\ IF ok
        THEN /\ entries' = listing
             /\ selectedEntries' = Clear(selectedEntries)
             /\ last' = Returned("listEntries", directoryPath, listing,
                          << Call("listEntries", directoryPath, "", 0, "ok") >>)
        ELSE /\ UNCHANGED <<entries, selectedEntries>>
             /\ last' = Threw("listEntries", directoryPath, NoEnv,
                          ExplorerError(directoryPath),
                          << Call("listEntries", directoryPath, "", 0,
                                  ExplorerError(directoryPath)) >>)

\* select without the membership check
selectUnchecked ==
  \E entryName \in Names \cup { Unknown } :
     /\ selectedEntries' = SetAdd(selectedEntries, entryName)
     /\ UNCHANGED <<currentDirectory, entries>>
     /\ last' = Returned("select", entryName, <<>>, <<>>)

select ==
  \E entryName \in Names \cup { Unknown } :
     IF ~Includes(entries, entryName)
     THEN /\ UNCHANGED <<currentDirectory, entries, selectedEntries>>
          /\ last' = Threw("select", entryName, NoEnv, NotFound(entryName), <<>>)
     ELSE /\ selectedEntries' = SetAdd(selectedEntries, entryName)
          /\ UNCHANGED <<currentDirectory, entries>>
          /\ last' = Returned("select", entryName, <<>>, <<>>)

deselect ==
  \E entryName \in Names \cup { Unknown } :
     /\ selectedEntries' = SetDelete(selectedEntries, entryName)
     /\ UNCHANGED <<currentDirectory, entries>>
     /\ last' = Returned("deselect", entryName, <<>>, <<>>)

selectAll ==
  /\ selectedEntries' = AddAll(selectedEntries, entries)
  /\ UNCHANGED <<currentDirectory, entries>>
  /\ last' = Returned("selectAll", "", <<>>, <<>>)

deselectAll ==
  /\ selectedEntries' = Clear(selectedEntries)
  /\ UNCHANGED <<currentDirectory, entries>>
  /\ last' = Returned("deselectAll", "", <<>>, <<>>)

\* copySelection catching the failure of createDirectory and going on
CopySelectionIgnoringMkdir(destinationPath, env, mkdirFails, fails) ==
  IF IsEmpty(selectedEntries)
  THEN /\ UNCHANGED <<currentDirectory, entries, selectedEntries>>
       /\ last' = Threw("copySelection", destinationPath, env, NothingSelected, <<>>)
  ELSE \E r \in { resolveDestination(destinationPath, currentDirectory, env) } :
       \E resolved \in { r.path } :
       \E mkdirError \in { ManipulatorError("createDirectory", resolved) } :
       \E acc \in { CopyLoop(selectedEntries, currentDirectory, resolved, fails,
                      Start(Append(r.calls,
                        Call("createDirectory", resolved, "", 0,
                             IF mkdirFails THEN mkdirError ELSE "ok")))) } :
          /\ selectedEntries' = DeleteAll(selectedEntries, acc.succeeded)
          /\ entries' = acc.entries
          /\ UNCHANGED currentDirectory
          /\ last' = Result("copySelection", destinationPath, env, TRUE,
                       resolved, acc.errors, acc.calls)

\* copySelection(destinationPath?) in environment env; createDirectory
\* throws iff mkdirFails, manipulator.copy throws for the entries of fails
CopySelection(destinationPath, env, mkdirFails, fails) ==
  IF IsEmpty(selectedEntries)
  THEN /\ UNCHANGED <<currentDirectory, entries, selectedEntries>>
       /\ last' = Threw("copySelection", destinationPath, env, NothingSelected, <<>>)
  ELSE \E r \in { resolveDestination(destinationPath, currentDirectory, env) } :
       \E resolved \in { r.path } :
       \E mkdirError \in { ManipulatorError("createDirectory", resolved) } :
          IF mkdirFails
          THEN /\ UNCHANGED <<currentDirectory, entries, selectedEntries>>
               /\ last' = Threw("copySelection", destinationPath, env, mkdirError,
                            Append(r.calls,
                              Call("createDirectory", resolved, "", 0, mkdirError)))
          ELSE \E acc \in { CopyLoop(selectedEntries, currentDirectory, resolved, fails,
                              Start(Append(r.calls,
                                Call("createDirectory", resolved, "", 0, "ok")))) } :
                  /\ selectedEntries' = DeleteAll(selectedEntries, acc.succeeded)
                  /\ entries' = acc.entries
                  /\ UNCHANGED currentDirectory
                  /\ last' = Result("copySelection", destinationPath, env, TRUE,
                               resolved, acc.errors, acc.calls)

\* moveSelection creating the destination directory after the transfers
MoveSelectionMkdirLast(destinationPath, env, mkdirFails, fails) ==
  IF IsEmpty(selectedEntries)
  THEN /\ UNCHANGED <<currentDirectory, entries, selectedEntries>>
       /\ last' = Threw("moveSelection", destinationPath, env, NothingSelected, <<>>)
  ELSE \E r \in { resolveDestination(destinationPath, currentDirectory, env) } :
       \E resolved \in { r.path } :
       \E acc \in { MoveLoop(selectedEntries, currentDirectory, resolved, fails,
                      Start(r.calls)) } :
          /\ selectedEntries' = DeleteAll(selectedEntries, acc.succeeded)
          /\ entries' = acc.entries
          /\ UNCHANGED currentDirectory
          /\ last' = Result("moveSelection", destinationPath, env, TRUE,
                       resolved, acc.errors,
                       Append(acc.calls, Call("createDirectory", resolved, "", 0, "ok")))

\* moveSelection(destinationPath?) in environment env; createDirectory
\* throws iff mkdirFails, manipulator.move throws for the entries of fails
MoveSelection(destinationPath, env, mkdirFails, fails) ==
  IF IsEmpty(selectedEntries)
  THEN /\ UNCHANGED <<currentDirectory, entries, selectedEntries>>
       /\ last' = Threw("moveSelection", destinationPath, env, NothingSelected, <<>>)
  ELSE \E r \in { resolveDestination(destinationPath, currentDirectory, env) } :
       \E resolved \in { r.path } :
       \E mkdirError \in { ManipulatorError("createDirectory", resolved) } :
          IF mkdirFails
          THEN /\ UNCHANGED <<currentDirectory, entries, selectedEntries>>
               /\ last' = Threw("moveSelection", destinationPath, env, mkdirError,
                            Append(r.calls,
                              Call("createDirectory", resolved, "", 0, mkdirError)))
          ELSE \E acc \in { MoveLoop(selectedEntries, currentDirectory, resolved, fails,
                              Start(Append(r.calls,
                                Call("createDirectory", resolved, "", 0, "ok")))) } :
                  /\ selectedEntries' = DeleteAll(selectedEntries, acc.succeeded)
                  /\ entries' = acc.entries
                  /\ UNCHANGED currentDirectory
                  /\ last' = Result("moveSelection", destinationPath, env, TRUE,
                               resolved, acc.errors, acc.calls)

\* deleteSelection returning its directory as a destinationPath
DeleteSelectionWithDestination(fails) ==
  IF IsEmpty(selectedEntries)
  THEN /\ UNCHANGED <<currentDirectory, entries, selectedEntries>>
       /\ last' = Threw("deleteSelection", "", NoEnv, NothingSelected, <<>>)
  ELSE \E acc \in { DeleteLoop(selectedEntries, currentDirectory, fails, Start(<<>>)) } :
           /\ selectedEntries' = DeleteAll(selectedEntries, acc.succeeded)
           /\ entries' = acc.entries
           /\ UNCHANGED currentDirectory
           /\ last' = Result("deleteSelection", "", NoEnv, TRUE, currentDirectory,
                        acc.errors, acc.calls)

\* deleteSelection(); manipulator.delete throws for the entries of fails
DeleteSelection(fails) ==
  IF IsEmpty(selectedEntries)
  THEN /\ UNCHANGED <<currentDirectory, entries, selectedEntries>>
       /\ last' = Threw("deleteSelection", "", NoEnv, NothingSelected, <<>>)
  ELSE \E acc \in { DeleteLoop(selectedEntries, currentDirectory, fails, Start(<<>>)) } :
           /\ selectedEntries' = DeleteAll(selectedEntries, acc.succeeded)
           /\ entries' = acc.entries
           /\ UNCHANGED currentDirectory
           /\ last' = Result("deleteSelection", "", NoEnv, FALSE, "",
                        acc.errors, acc.calls)

\* the inputs of a batch call that make a difference: with nothing selected
\* no collaborator is asked, and after createDirectory throws no primitive is
Inputs(destinationPath, env, mkdirFails, fails) ==
  /\ env \in (IF IsEmpty(selectedEntries) THEN { NoEnv }
              ELSE EnvsFor(destinationPath, BatchEnvs))
  /\ mkdirFails \in (IF IsEmpty(selectedEntries) THEN { FALSE } ELSE BOOLEAN)
  /\ fails \in (IF mkdirFails THEN { {} } ELSE SUBSET Range(selectedEntries))

copySelection ==
  \E destinationPath \in Destinations, env \in BatchEnvs \cup { NoEnv },
     mkdirFails \in BOOLEAN, fails \in SUBSET Range(selectedEntries) :
     /\ Inputs(destinationPath, env, mkdirFails, fails)
     /\ CopySelection(destinationPath, env, mkdirFails, fails)

moveSelection ==
  \E destinationPath \in Destinations, env \in BatchEnvs \cup { NoEnv },
     mkdirFails \in BOOLEAN, fails \in SUBSET Range(selectedEntries) :
     /\ Inputs(destinationPath, env, mkdirFails, fails)
     /\ MoveSelection(destinationPath, env, mkdirFails, fails)

deleteSelection ==
  \E fails \in SUBSET Range(selectedEntries) : DeleteSelection(fails)

Next ==
  \/ listEntries
  \/ select
  \/ deselect
  \/ selectAll
  \/ deselectAll
  \/ copySelection
  \/ moveSelection
  \/ deleteSelection

Spec == Init /\ [][Next]_vars

(***************************************************************************)
(* Destination resolution on its own: resolveDestination applied, in an    *)
(* engine that has loaded a directory and holds a selection, to every      *)
(* destination, every stream of the Random provider and every answer       *)
(* sequence of the Explorer within the bounds.                             *)
(***************************************************************************)
InitResolve ==
  /\ currentDirectory \in Dirs
  /\ entries = DirectoryOrder
  /\ selectedEntries = << entries[1] >>
  /\ last = [op |-> "select", arg |-> entries[1], env |-> NoEnv,
             pre |-> [dir |-> currentDirectory, entries |-> entries, sel |-> <<>>],
             outcome |-> "returned", error |-> "",
             hasDestination |-> FALSE, destinationPath |-> "",
             errors |-> <<>>, listing |-> <<>>, calls |-> <<>>,
             retry |-> NoRetry, listedFrom |-> currentDirectory]

ResolveDestination ==
  \E destinationPath \in Destinations :
  \E env \in EnvsFor(destinationPath, Envs) :
  \E r \in { resolveDestination(destinationPath, currentDirectory, env) } :
     /\ last' = Result("resolveDestination", destinationPath, env, TRUE,
                  r.path, <<>>, r.calls)
     /\ UNCHANGED <<currentDirectory, entries, selectedEntries>>

NextResolve == ResolveDestination

SpecResolve == InitResolve /\ [][NextResolve]_vars

(***************************************************************************)
(* Destination resolution step by step: one action per pass of the retry   *)
(* loop and per half of the do-while, the Random provider and the Explorer *)
(* answering each call as they like.  `last` holds the position in         *)
(* resolveDestination and its locals.  The code runs on once called, so    *)
(* every step is weakly fair; nothing makes the Explorer ever answer       *)
(* "does not exist".                                                       *)
(***************************************************************************)
\* the indices the Random provider returns in the stepped runs
DrawValues == { 3, 19 }

\* counter++ (counters above MaxNumbered are not told apart)
Increment(counter) == IF counter < MaxNumbered THEN counter + 1 ELSE MaxNumbered

InitSteps ==
  /\ currentDirectory \in Dirs
  /\ entries = DirectoryOrder
  /\ selectedEntries = << entries[1] >>
  /\ \E destinationPath \in Destinations :
        last = [op |-> "resolveDestination", arg |-> destinationPath,
                pc |-> "enter", attempt |-> 0, name |-> "", counter |-> 0,
                numberedName |-> "", draws |-> 0, answer |-> "", path |-> ""]

\* if (destinationPath) return destinationPath; let name = ""; attempt = 0
StepEnter ==
  /\ last.pc = "enter"
  /\ last' = IF Truthy(last.arg)
             THEN [last EXCEPT !.pc = "done", !.path = last.arg]
             ELSE [last EXCEPT !.pc = "for"]
  /\ UNCHANGED <<currentDirectory, entries, selectedEntries>>

\* a loop that never leaves at the bound
StepAttemptUnbounded ==
  /\ last.pc = "for"
  /\ \E i \in DrawValues, j \in DrawValues, found \in BOOLEAN :
        LET name == ADJECTIVES[i + 1] \o "-" \o NOUNS[j + 1]
        IN  last' = IF ~found
                    THEN [last EXCEPT !.pc = "done", !.name = name,
                                      !.draws = IF @ < 2 * MaxAttempts + 2 THEN @ + 2 ELSE @,
                                      !.answer = "false",
                                      !.path = Join(currentDirectory, name)]
                    ELSE [last EXCEPT !.name = name,
                                      !.draws = IF @ < 2 * MaxAttempts + 2 THEN @ + 2 ELSE @,
                                      !.answer = "true"]
  /\ UNCHANGED <<currentDirectory, entries, selectedEntries>>

\* one pass of the for loop: two draws, the name, one probe, return or retry
StepAttempt ==
  /\ last.pc = "for"
  /\ last.attempt < MaxAttempts
  /\ \E i \in DrawValues, j \in DrawValues, found \in BOOLEAN :
        LET name == ADJECTIVES[i + 1] \o "-" \o NOUNS[j + 1]
        IN  last' = IF ~found
                    THEN [last EXCEPT !.pc = "done", !.name = name,
                                      !.draws = @ + 2, !.answer = "false",
                                      !.path = Join(currentDirectory, name)]
                    ELSE [last EXCEPT !.attempt = @ + 1, !.name = name,
                                      !.draws = @ + 2, !.answer = "true"]
  /\ UNCHANGED <<currentDirectory, entries, selectedEntries>>

\* attempt < 10 is false: let counter = 1
StepForExit ==
  /\ last.pc = "for"
  /\ ~(last.attempt < MaxAttempts)
  /\ last' = [last EXCEPT !.pc = "do", !.counter = 1]
  /\ UNCHANGED <<currentDirectory, entries, selectedEntries>>

\* numberedName = `${name}-${counter}`; counter++
StepDo ==
  /\ last.pc = "do"
  /\ last' = [last EXCEPT !.pc = "while",
                          !.numberedName = last.name \o "-" \o NumberToString(last.counter),
                          !.counter = Increment(@)]
  /\ UNCHANGED <<currentDirectory, entries, selectedEntries>>

\* while (this.explorer.exists(...)); return path.join(...)
StepWhile ==
  /\ last.pc = "while"
  /\ \E found \in BOOLEAN :
        last' = IF found
                THEN [last EXCEPT !.pc = "do", !.answer = "true"]
                ELSE [last EXCEPT !.pc = "done", !.answer = "false",
                                  !.path = Join(currentDirectory, last.numberedName)]
  /\ UNCHANGED <<currentDirectory, entries, selectedEntries>>

NextSteps ==
  \/ StepEnter
  \/ StepAttempt
  \/ StepForExit
  \/ StepDo
  \/ StepWhile

SpecSteps == InitSteps /\ [][NextSteps]_vars /\ WF_vars(NextSteps)

(***************************************************************************)
(* Retries: an engine that has loaded a directory and holds a selection    *)
(* is asked one batch operation, and the same one again for as long as     *)
(* something is selected.  The Manipulator fails the entries it likes at   *)
(* each invocation.  The fairness says what the caller and the Manipulator *)
(* are supposed to do: for each entry, an invocation in which its          *)
(* primitive succeeds happens at some time while the entry is selected.    *)
(***************************************************************************)
InitRetry ==
  /\ currentDirectory \in Dirs
  /\ entries = DirectoryOrder
  /\ selectedEntries \in Listings \ { <<>> }
  /\ last = [op |-> "select", arg |-> selectedEntries[Len(selectedEntries)],
             env |-> NoEnv,
             pre |-> [dir |-> currentDirectory, entries |-> entries,
                      sel |-> SubSeq(selectedEntries, 1, Len(selectedEntries) - 1)],
             outcome |-> "returned", error |-> "",
             hasDestination |-> FALSE, destinationPath |-> "",
             errors |-> <<>>, listing |-> <<>>, calls |-> <<>>,
             retry |-> NoRetry, listedFrom |-> currentDirectory]

\* whether `op` is the operation being retried, or the first one asked
SameOperation(op) == last.op \in BatchOps => last.op = op

\* copySelection asked again; the entries of mustSucceed are copied
RetryCopy(mustSucceed) ==
  /\ ~IsEmpty(selectedEntries)
  /\ SameOperation("copySelection")
  /\ \E destinationPath \in Destinations, env \in BatchEnvs \cup { NoEnv },
        mkdirFails \in BOOLEAN, fails \in SUBSET Range(selectedEntries) :
        /\ Inputs(destinationPath, env, mkdirFails, fails)
        /\ mustSucceed \cap fails = {}
        /\ mustSucceed # {} => ~mkdirFails
        /\ CopySelection(destinationPath, env, mkdirFails, fails)

\* moveSelection asked again; the entries of mustSucceed are moved
RetryMove(mustSucceed) ==
  /\ ~IsEmpty(selectedEntries)
  /\ SameOperation("moveSelection")
  /\ \E destinationPath \in Destinations, env \in BatchEnvs \cup { NoEnv },
        mkdirFails \in BOOLEAN, fails \in SUBSET Range(selectedEntries) :
        /\ Inputs(destinationPath, env, mkdirFails, fails)
        /\ mustSucceed \cap fails = {}
        /\ mustSucceed # {} => ~mkdirFails
        /\ MoveSelection(destinationPath, env, mkdirFails, fails)

\* deleteSelection asked again; the entries of mustSucceed are deleted
RetryDelete(mustSucceed) ==
  /\ ~IsEmpty(selectedEntries)
  /\ SameOperation("deleteSelection")
  /\ \E fails \in SUBSET Range(selectedEntries) :
        /\ mustSucceed \cap fails = {}
        /\ DeleteSelection(fails)

\* an invocation in which the primitive of the selected entry e succeeds
Succeeds(e) ==
  /\ e \in Range(selectedEntries)
  /\ \/ RetryCopy({ e })
     \/ RetryMove({ e })
     \/ RetryDelete({ e })

NextRetry ==
  \/ RetryCopy({})
  \/ RetryMove({})
  \/ RetryDelete({})

SpecRetry ==
  /\ InitRetry
  /\ [][NextRetry]_vars
  /\ \A e \in Names : WF_vars(Succeeds(e))

(***************************************************************************)
(* What the observation says about the last call.                          *)
(***************************************************************************)
\* the Manipulator primitive of a batch operation
Primitive(op) ==
  CASE op = "copySelection" -> "copy"
    [] op = "moveSelection" -> "move"
    [] op = "deleteSelection" -> "delete"
    [] OTHER -> "none"

IsBatch == last.op \in BatchOps

BatchReturned == IsBatch /\ last.outcome = "returned"

\* the primitive calls of the last call, in order
PrimitiveCalls == SelectSeq(last.calls, LAMBDA c : c.fn = Primitive(last.op))

\* the sources the primitive was invoked on, in order
PrimitiveSources == [k \in 1..Len(PrimitiveCalls) |-> PrimitiveCalls[k].a]

\* the source path of an entry at the start of the last call
SourceOf(e) == Join(last.pre.dir, e)

PrimitiveOk(e) ==
  \E k \in 1..Len(PrimitiveCalls) :
     PrimitiveCalls[k].a = SourceOf(e) /\ PrimitiveCalls[k].ret = "ok"

PrimitiveFailed(e) ==
  \E k \in 1..Len(PrimitiveCalls) :
     PrimitiveCalls[k].a = SourceOf(e) /\ PrimitiveCalls[k].ret # "ok"

CreateDirectoryFailed ==
  \E k \in 1..Len(last.calls) :
     last.calls[k].fn = "createDirectory" /\ last.calls[k].ret # "ok"

CollaboratorCalls(fn) == Cardinality({ k \in 1..Len(last.calls) : last.calls[k].fn = fn })

ErrorNames == [k \in 1..Len(last.errors) |-> last.errors[k].fileName]

Snapshot == last.pre.sel

StateUnchanged ==
  /\ currentDirectory = last.pre.dir
  /\ entries = last.pre.entries
  /\ selectedEntries = last.pre.sel

(***************************************************************************)
(* C1.  At the return of every public call, whether it returned or threw,  *)
(* every selected name is a member of entries.                             *)
(***************************************************************************)
C1_SelectionWithinEntries == Range(selectedEntries) \subseteq Range(entries)

\* a move that removed one entry and left a failed one selected
C1_Witness ==
  /\ last.op = "moveSelection" /\ last.outcome = "returned"
  /\ Len(entries) < Len(last.pre.entries)
  /\ selectedEntries # <<>>
  /\ C1_SelectionWithinEntries

(***************************************************************************)
(* C2.  A listEntries call whose Explorer listing throws leaves            *)
(* currentDirectory, entries and the selection as they were.               *)
(* Fails: currentDirectory is assigned before the Explorer is asked.       *)
(***************************************************************************)
C2_FailedLoadLeavesStateUnchanged ==
  (last.op = "listEntries" /\ last.outcome = "threw") => StateUnchanged

(***************************************************************************)
(* C3.  When moveSelection or deleteSelection returns: an entry of the     *)
(* snapshot whose primitive succeeded is in neither entries nor the        *)
(* selection, one whose primitive threw is in both, and the entries that   *)
(* were not selected are where they were and not selected.                 *)
(***************************************************************************)
C3_MoveDeleteOutcome ==
  (last.op \in { "moveSelection", "deleteSelection" } /\ last.outcome = "returned") =>
     /\ \A k \in 1..Len(Snapshot) :
           /\ PrimitiveOk(Snapshot[k]) =>
                 /\ ~Includes(entries, Snapshot[k])
                 /\ ~Includes(selectedEntries, Snapshot[k])
           /\ PrimitiveFailed(Snapshot[k]) =>
                 /\ Includes(entries, Snapshot[k])
                 /\ Includes(selectedEntries, Snapshot[k])
     /\ SelectSeq(entries, LAMBDA e : e \notin Range(Snapshot))
          = SelectSeq(last.pre.entries, LAMBDA e : e \notin Range(Snapshot))
     /\ \A k \in 1..Len(last.pre.entries) :
           last.pre.entries[k] \notin Range(Snapshot) =>
              ~Includes(selectedEntries, last.pre.entries[k])

\* one entry moved or deleted, one failed, one not selected
C3_Witness ==
  /\ last.op \in { "moveSelection", "deleteSelection" } /\ last.outcome = "returned"
  /\ \E e \in Range(Snapshot) : PrimitiveOk(e) /\ ~Includes(entries, e)
  /\ \E e \in Range(Snapshot) : PrimitiveFailed(e) /\ Includes(entries, e)
  /\ \E e \in Range(last.pre.entries) : e \notin Range(Snapshot)

(***************************************************************************)
(* C4.  copySelection never modifies entries, and when it returns the      *)
(* selection is the selection before the call less exactly the entries     *)
(* whose copy succeeded.                                                   *)
(***************************************************************************)
C4_CopyFrame ==
  (last.op = "copySelection") =>
     /\ entries = last.pre.entries
     /\ currentDirectory = last.pre.dir
     /\ last.outcome = "returned" =>
           selectedEntries = SelectSeq(Snapshot, LAMBDA e : ~PrimitiveOk(e))
     /\ last.outcome = "threw" => selectedEntries = Snapshot

\* a copy with a success and a failure
C4_Witness ==
  /\ last.op = "copySelection" /\ last.outcome = "returned"
  /\ \E e \in Range(Snapshot) : PrimitiveOk(e)
  /\ \E e \in Range(Snapshot) : PrimitiveFailed(e)
  /\ Len(entries) = 3

(***************************************************************************)
(* C5.  With nothing selected, copySelection, moveSelection and            *)
(* deleteSelection throw "nothing selected" before any collaborator is     *)
(* called, and the state is unchanged.                                     *)
(***************************************************************************)
C5_EmptySelectionFailsFirst ==
  (IsBatch /\ Len(Snapshot) = 0) =>
     /\ last.outcome = "threw"
     /\ last.error = NothingSelected
     /\ last.calls = <<>>
     /\ StateUnchanged

\* a batch call on a loaded, non-empty directory with nothing selected
C5_Witness ==
  /\ last.op = "moveSelection" /\ Len(Snapshot) = 0
  /\ last.outcome = "threw"
  /\ Len(entries) > 0

(***************************************************************************)
(* C6.  A primitive that throws does not end the batch: in a batch call    *)
(* that reached its loop (something selected, createDirectory did not      *)
(* throw) the primitive is invoked once for every entry of the snapshot,   *)
(* in snapshot order, and the call returns a result.                       *)
(***************************************************************************)
C6_EveryEntryAttemptedOnce ==
  (IsBatch /\ Len(Snapshot) > 0 /\ ~CreateDirectoryFailed) =>
     /\ last.outcome = "returned"
     /\ PrimitiveSources = [k \in 1..Len(Snapshot) |-> SourceOf(Snapshot[k])]

\* the first primitive threw and two more entries were attempted after it
C6_Witness ==
  /\ last.op = "deleteSelection" /\ last.outcome = "returned"
  /\ Len(Snapshot) = 3
  /\ Len(PrimitiveCalls) = 3
  /\ PrimitiveCalls[1].ret # "ok"

(***************************************************************************)
(* C7.  When a batch operation returns, every entry of the snapshot is     *)
(* either once in errors and still selected, or not in errors and no       *)
(* longer selected; the selection is the set of names in errors; no entry  *)
(* is in errors and succeeded.                                             *)
(***************************************************************************)
C7_ErrorsPartitionSnapshot ==
  BatchReturned =>
     /\ \A k \in 1..Len(Snapshot) :
           LET n == Cardinality({ j \in 1..Len(ErrorNames) : ErrorNames[j] = Snapshot[k] })
           IN  \/ n = 1 /\ Includes(selectedEntries, Snapshot[k])
               \/ n = 0 /\ ~Includes(selectedEntries, Snapshot[k])
     /\ Range(selectedEntries) = Range(ErrorNames)
     /\ \A j \in 1..Len(ErrorNames) :
           /\ ErrorNames[j] \in Range(Snapshot)
           /\ ~PrimitiveOk(ErrorNames[j])

\* a copy with two failures and one success
C7_Witness ==
  /\ last.op = "copySelection" /\ last.outcome = "returned"
  /\ Len(last.errors) = 2
  /\ Len(Snapshot) = 3
  /\ Len(selectedEntries) = 2

(***************************************************************************)
(* C8.  A listEntries call that returns leaves the selection empty,        *)
(* entries equal to the Explorer's listing and currentDirectory equal to   *)
(* the given path.                                                         *)
(***************************************************************************)
C8_LoadResetsSelection ==
  (last.op = "listEntries" /\ last.outcome = "returned") =>
     /\ selectedEntries = <<>>
     /\ entries = last.listing
     /\ currentDirectory = last.arg

\* the current directory is loaded again while entries are selected
C8_Witness ==
  /\ last.op = "listEntries" /\ last.outcome = "returned"
  /\ last.pre.sel # <<>>
  /\ last.arg = last.pre.dir
  /\ entries # <<>>

(***************************************************************************)
(* C9.  When a batch operation that has just returned is invoked again:    *)
(* if its errors were empty the call throws "nothing selected"; otherwise  *)
(* (createDirectory not throwing) the primitive is invoked for exactly the *)
(* entries named in those errors.                                          *)
(***************************************************************************)
C9_RetryAttemptsFailedOnly ==
  (IsBatch /\ last.retry.is) =>
     IF last.retry.errors = <<>>
     THEN last.outcome = "threw" /\ last.error = NothingSelected /\ last.calls = <<>>
     ELSE ~CreateDirectoryFailed =>
            /\ last.outcome = "returned"
            /\ PrimitiveSources =
                 [k \in 1..Len(last.retry.errors) |-> SourceOf(last.retry.errors[k])]

\* a move re-invoked after one of three entries had failed
C9_Witness ==
  /\ last.op = "moveSelection" /\ last.retry.is
  /\ Len(last.retry.errors) = 1
  /\ Len(last.pre.entries) < 3
  /\ Len(PrimitiveCalls) = 1

\* a delete re-invoked after it had returned no error
C9_WitnessNothingLeft ==
  /\ last.op = "deleteSelection" /\ last.retry.is
  /\ last.retry.errors = <<>>
  /\ last.outcome = "threw"

(***************************************************************************)
(* C10.  With no destination supplied, when the k-th random attempt        *)
(* (1 <= k <= 10) is the first whose path does not exist, resolution       *)
(* returns join(currentDirectory, ADJ[i]-NOUN[j]) for i, j the (2k-1)-th   *)
(* and 2k-th results of nextInt, after k probes and 2k draws.              *)
(***************************************************************************)
C10_FirstFreeAttempt ==
  (/\ last.op = "resolveDestination"
   /\ ~Truthy(last.arg)
   /\ last.env.m < MaxAttempts) =>
     LET k == last.env.m + 1
         i == NextInt(last.env.seed, last.env.stride, 2 * k - 1, Len(ADJECTIVES))
         j == NextInt(last.env.seed, last.env.stride, 2 * k, Len(NOUNS))
     IN  /\ last.destinationPath =
              Join(currentDirectory, ADJECTIVES[i + 1] \o "-" \o NOUNS[j + 1])
         /\ CollaboratorCalls("exists") = k
         /\ CollaboratorCalls("nextInt") = 2 * k
         /\ last.calls[Len(last.calls)].a = last.destinationPath

\* the first name collides and the second is free: two probes
C10_Witness ==
  /\ last.op = "resolveDestination"
  /\ last.arg = UNDEFINED
  /\ last.env.m = 1 /\ last.env.stride = 1 /\ last.env.seed = 3
  /\ CollaboratorCalls("exists") = 2
  /\ last.destinationPath = Join(currentDirectory, "rapide-ocean")


\* the exists probes of the last call, in order
ExistsCalls == SelectSeq(last.calls, LAMBDA c : c.fn = "exists")

(***************************************************************************)
(* C11.  When all 10 random attempts collide, resolution keeps the base    *)
(* name of the 10th attempt and probes base-1, base-2, ... in increasing   *)
(* order; it returns join(currentDirectory, base-n) for the smallest n     *)
(* whose path does not exist, after 10 + n probes and no further draw.     *)
(***************************************************************************)
C11_NumberedFallback ==
  (/\ last.op = "resolveDestination"
   /\ ~Truthy(last.arg)
   /\ last.env.m >= MaxAttempts) =>
     LET n == last.env.m - MaxAttempts + 1
         i == NextInt(last.env.seed, last.env.stride, 2 * MaxAttempts - 1, Len(ADJECTIVES))
         j == NextInt(last.env.seed, last.env.stride, 2 * MaxAttempts, Len(NOUNS))
         base == ADJECTIVES[i + 1] \o "-" \o NOUNS[j + 1]
     IN  /\ last.destinationPath =
              Join(currentDirectory, base \o "-" \o NumberToString(n))
         /\ Len(ExistsCalls) = MaxAttempts + n
         /\ CollaboratorCalls("nextInt") = 2 * MaxAttempts
         /\ \A t \in 1..n :
               /\ ExistsCalls[MaxAttempts + t].a =
                    Join(currentDirectory, base \o "-" \o NumberToString(t))
               /\ ExistsCalls[MaxAttempts + t].ret = BoolToString(t < n)
         /\ \A k \in 1..Len(last.calls) :
               last.calls[k].fn = "nextInt" => k < 3 * MaxAttempts

\* ten collisions, base-1 taken as well, base-2 free
C11_Witness ==
  /\ last.op = "resolveDestination"
  /\ last.arg = UNDEFINED
  /\ last.env.m = MaxAttempts + 1 /\ last.env.seed = 3 /\ last.env.stride = 1
  /\ Len(ExistsCalls) = 12
  /\ last.destinationPath = Join(currentDirectory, "petit-etoile-2")

(***************************************************************************)
(* C12.  When copySelection or moveSelection is called without a           *)
(* destination and returns, the returned destinationPath is a path the     *)
(* Explorer answered "does not exist" for during that call, and that probe *)
(* was the last existence probe of the call.                               *)
(***************************************************************************)
C12_GeneratedDestinationWasFree ==
  (/\ last.op \in { "copySelection", "moveSelection" }
   /\ last.outcome = "returned"
   /\ last.arg = UNDEFINED) =>
     /\ Len(ExistsCalls) >= 1
     /\ ExistsCalls[Len(ExistsCalls)].a = last.destinationPath
     /\ ExistsCalls[Len(ExistsCalls)].ret = "false"
     /\ last.hasDestination

\* a copy whose destination is a numbered name, found free at its probe
C12_Witness ==
  /\ last.op = "copySelection" /\ last.outcome = "returned"
  /\ last.arg = UNDEFINED
  /\ Len(ExistsCalls) = MaxAttempts + 2
  /\ ExistsCalls[Len(ExistsCalls)].a = last.destinationPath


(***************************************************************************)
(* C13.  Destination resolution always terminates and returns a path: at   *)
(* most 10 random attempts, and the numbering that follows terminates.     *)
(* Fails: the do-while has no bound and runs for as long as the Explorer   *)
(* answers "exists".                                                       *)
(***************************************************************************)
C13_AlwaysTerminates == <>(last.pc = "done")

\* C13 as amended: the random phase makes at most 10 attempts (20 draws),
\* and resolution returns a path unless the Explorer answers "exists" to
\* the probes of the numbering again and again, without end
C13_TerminatesUnlessAlwaysTaken ==
  /\ [](last.attempt <= MaxAttempts /\ last.draws <= 2 * MaxAttempts)
  /\ [](last.pc = "done" => last.path # "")
  /\ \/ <>(last.pc = "done")
     \/ []<>(last.pc = "do" /\ last.answer = "true" /\ last.attempt = MaxAttempts)

\* the numbering ended at a second numbered name after ten collisions
C13_Witness ==
  /\ last.pc = "done"
  /\ last.attempt = MaxAttempts
  /\ last.draws = 2 * MaxAttempts
  /\ last.counter = 3
  /\ last.path = Join(currentDirectory, last.name \o "-2")


(***************************************************************************)
(* C14.  When the caller supplies a destination string to copySelection or *)
(* moveSelection, the empty string included, the returned destinationPath  *)
(* is that string and no exists probe and no draw is made.                 *)
(* Fails for the empty string: `if (destinationPath)` takes it for absent. *)
(***************************************************************************)
C14_ExplicitDestinationUnchanged ==
  (/\ last.op \in { "copySelection", "moveSelection" }
   /\ last.outcome = "returned"
   /\ last.arg # UNDEFINED) =>
     /\ last.destinationPath = last.arg
     /\ CollaboratorCalls("exists") = 0
     /\ CollaboratorCalls("nextInt") = 0

(***************************************************************************)
(* C16.  In copySelection and moveSelection with something selected,       *)
(* createDirectory is invoked exactly once, with the resolved destination, *)
(* after every call of the resolution and before the first primitive;      *)
(* deleteSelection never invokes createDirectory.                          *)
(***************************************************************************)
C16_CreateDirectoryOnceBeforeTransfers ==
  /\ last.op = "deleteSelection" => CollaboratorCalls("createDirectory") = 0
  /\ (last.op \in { "copySelection", "moveSelection" } /\ Len(Snapshot) > 0) =>
        /\ CollaboratorCalls("createDirectory") = 1
        /\ \A k \in 1..Len(last.calls) :
              last.calls[k].fn = "createDirectory" =>
                 /\ \A h \in 1..(k - 1) : last.calls[h].fn \in { "nextInt", "exists" }
                 /\ \A h \in (k + 1)..Len(last.calls) :
                       last.calls[h].fn = Primitive(last.op)
                 /\ (last.outcome = "returned") =>
                       last.calls[k].a = last.destinationPath
                 /\ IF Truthy(last.arg)
                    THEN k = 1 /\ last.calls[k].a = last.arg
                    ELSE /\ k > 1
                         /\ last.calls[k - 1].fn = "exists"
                         /\ last.calls[k - 1].ret = "false"
                         /\ last.calls[k - 1].a = last.calls[k].a

\* a move to a generated destination with two transfers after the creation
C16_Witness ==
  /\ last.op = "moveSelection" /\ last.outcome = "returned"
  /\ last.arg = UNDEFINED
  /\ CollaboratorCalls("createDirectory") = 1
  /\ Len(PrimitiveCalls) = 2
  /\ CollaboratorCalls("exists") = 1

(***************************************************************************)
(* C17.  select(name) with a name that is not in entries throws "not       *)
(* found" and leaves the state unchanged; with a name in entries it        *)
(* returns and the name is selected.                                       *)
(***************************************************************************)
C17_SelectChecksMembership ==
  (last.op = "select") =>
     IF \E k \in 1..Len(last.pre.entries) : last.pre.entries[k] = last.arg
     THEN /\ last.outcome = "returned"
          /\ last.arg \in Range(selectedEntries)
          /\ entries = last.pre.entries
          /\ currentDirectory = last.pre.dir
     ELSE /\ last.outcome = "threw"
          /\ last.error = NotFound(last.arg)
          /\ StateUnchanged

\* a name of the directory that is no longer an entry is refused while
\* another entry is selected
C17_Witness ==
  /\ last.op = "select" /\ last.outcome = "threw"
  /\ last.arg \in Names
  /\ selectedEntries # <<>>
  /\ entries # <<>>

(***************************************************************************)
(* C18.  select is idempotent: selecting a name that is already selected   *)
(* raises no error and leaves the selection as it was, and after any       *)
(* select that returns the name is in the selection exactly once.          *)
(***************************************************************************)
C18_SelectIdempotent ==
  /\ (last.op = "select" /\ last.outcome = "returned") =>
        /\ Cardinality({ k \in 1..Len(selectedEntries) :
                           selectedEntries[k] = last.arg }) = 1
        /\ Range(selectedEntries) = Range(last.pre.sel) \cup { last.arg }
        /\ (last.arg \in Range(last.pre.sel)) => selectedEntries = last.pre.sel
  /\ (last.op = "select" /\ last.arg \in Range(last.pre.sel)) =>
        last.outcome = "returned"

\* a selected name is selected again
C18_Witness ==
  /\ last.op = "select" /\ last.outcome = "returned"
  /\ last.arg \in Range(last.pre.sel)
  /\ Len(selectedEntries) = 2

(***************************************************************************)
(* C19.  deselect(name) never fails: it removes exactly that name when it  *)
(* is selected, leaves the selection as it was when it is not, and never   *)
(* changes entries or currentDirectory.                                    *)
(***************************************************************************)
C19_DeselectFrame ==
  (last.op = "deselect") =>
     /\ last.outcome = "returned"
     /\ Range(selectedEntries) = Range(last.pre.sel) \ { last.arg }
     /\ Len(selectedEntries) =
          Len(last.pre.sel) - (IF last.arg \in Range(last.pre.sel) THEN 1 ELSE 0)
     /\ (last.arg \notin Range(last.pre.sel)) => selectedEntries = last.pre.sel
     /\ entries = last.pre.entries
     /\ currentDirectory = last.pre.dir

\* one of three selected names is deselected
C19_Witness ==
  /\ last.op = "deselect"
  /\ Len(last.pre.sel) = 3
  /\ Len(selectedEntries) = 2

\* a name that is not selected is deselected
C19_WitnessAbsent ==
  /\ last.op = "deselect"
  /\ last.arg = Unknown
  /\ selectedEntries # <<>>

(***************************************************************************)
(* C20.  After selectAll the selection is exactly the set of names in      *)
(* entries; after deselectAll it is empty.                                 *)
(***************************************************************************)
C20_SelectAllDeselectAll ==
  /\ (last.op = "selectAll") =>
        /\ last.outcome = "returned"
        /\ Range(selectedEntries) = Range(entries)
        /\ Len(selectedEntries) = Cardinality(Range(entries))
        /\ entries = last.pre.entries
  /\ (last.op = "deselectAll") =>
        /\ last.outcome = "returned"
        /\ selectedEntries = <<>>
        /\ entries = last.pre.entries

\* selectAll with one of three entries already selected
C20_Witness ==
  /\ last.op = "selectAll"
  /\ Len(last.pre.sel) = 1
  /\ Len(selectedEntries) = 3


(***************************************************************************)
(* C21.  The result of deleteSelection carries no destinationPath; the     *)
(* result of copySelection and of moveSelection carries one, equal to the  *)
(* path given to createDirectory and to the directory of every target of   *)
(* that call.                                                              *)
(***************************************************************************)
C21_DestinationPathOfResult ==
  /\ (last.op = "deleteSelection") => ~last.hasDestination
  /\ (last.op \in { "copySelection", "moveSelection" } /\ last.outcome = "returned") =>
        /\ last.hasDestination
        /\ \A k \in 1..Len(last.calls) :
              last.calls[k].fn = "createDirectory" =>
                 last.calls[k].a = last.destinationPath
        /\ Len(PrimitiveCalls) = Len(Snapshot)
        /\ \A k \in 1..Len(PrimitiveCalls) :
              PrimitiveCalls[k].b = Join(last.destinationPath, Snapshot[k])

\* a copy of two entries into a generated directory
C21_Witness ==
  /\ last.op = "copySelection" /\ last.outcome = "returned"
  /\ ~Truthy(last.arg)
  /\ Len(PrimitiveCalls) = 2
  /\ last.destinationPath # ""

\* a deleteSelection that returned a result
C21_WitnessDelete ==
  /\ last.op = "deleteSelection" /\ last.outcome = "returned"
  /\ Len(last.errors) = 1 /\ Len(PrimitiveCalls) = 2

(***************************************************************************)
(* C22.  Every record of result.errors holds the name of the entry that    *)
(* failed, the message of the error the Manipulator raised for it and the  *)
(* kind of the operation invoked; the records are in the order of the      *)
(* snapshot of the selection.                                              *)
(***************************************************************************)
C22_ErrorRecords ==
  BatchReturned =>
     LET failed == SelectSeq(PrimitiveCalls, LAMBDA c : c.ret # "ok")
     IN  /\ Len(last.errors) = Len(failed)
         /\ ErrorNames = SelectSeq(Snapshot, LAMBDA e : PrimitiveFailed(e))
         /\ \A k \in 1..Len(last.errors) :
               /\ k <= Len(failed)
               /\ failed[k].a = SourceOf(last.errors[k].fileName)
               /\ last.errors[k].errorMessage = failed[k].ret
               /\ last.errors[k].operationType = Primitive(last.op)

\* a move whose first and last entries failed, selected in another order
\* than that of entries
C22_Witness ==
  /\ last.op = "moveSelection" /\ last.outcome = "returned"
  /\ Len(Snapshot) = 3 /\ Len(last.errors) = 2
  /\ Snapshot # last.pre.entries
  /\ last.errors[1].fileName = Snapshot[1]
  /\ last.errors[2].fileName = Snapshot[3]


(***************************************************************************)
(* C23.  ADJECTIVES and NOUNS hold 20 tokens each, every token is          *)
(* non-empty and made of lowercase letters, no word is in both lists, and  *)
(* the names `${adj}-${noun}` of two different index pairs differ: there   *)
(* are 400 of them, and a name the resolution has probed after drawing the *)
(* pair (i, j) is the name of no other pair.                               *)
(***************************************************************************)
C23_Vocabulary ==
  /\ \A k \in 3..Len(last.calls) :
        (/\ last.calls[k].fn = "exists"
         /\ last.calls[k - 1].fn = "nextInt"
         /\ last.calls[k - 2].fn = "nextInt") =>
           \A i \in 1..Len(ADJECTIVES), j \in 1..Len(NOUNS) :
              (last.calls[k].a = Join(currentDirectory, ADJECTIVES[i] \o "-" \o NOUNS[j]))
                 <=> (i = last.calls[k - 2].n + 1 /\ j = last.calls[k - 1].n + 1)
  /\ Len(ADJECTIVES) = 20 /\ Len(NOUNS) = 20
  /\ Len(AdjectiveLetters) = Len(ADJECTIVES) /\ Len(NounLetters) = Len(NOUNS)
  /\ \A i \in 1..Len(ADJECTIVES) :
        /\ Spell(AdjectiveLetters[i]) = ADJECTIVES[i]
        /\ Len(AdjectiveLetters[i]) > 0
        /\ Range(AdjectiveLetters[i]) \subseteq Lowercase
  /\ \A j \in 1..Len(NOUNS) :
        /\ Spell(NounLetters[j]) = NOUNS[j]
        /\ Len(NounLetters[j]) > 0
        /\ Range(NounLetters[j]) \subseteq Lowercase
  /\ Range(ADJECTIVES) \cap Range(NOUNS) = {}
  /\ Cardinality({ ADJECTIVES[i] \o "-" \o NOUNS[j] :
                     i \in 1..Len(ADJECTIVES), j \in 1..Len(NOUNS) }) = 400

\* a destination generated from the last word of each list
C23_Witness ==
  /\ last.op = "resolveDestination"
  /\ CollaboratorCalls("exists") = 1
  /\ last.destinationPath = Join(currentDirectory, ADJECTIVES[20] \o "-" \o NOUNS[20])
  /\ last.destinationPath = Join(currentDirectory, "libre-emeraude")


(***************************************************************************)
(* C24.  The entries, and so the selection, were listed by the Explorer    *)
(* for the directory held in currentDirectory, and every source a batch    *)
(* operation hands to a Manipulator primitive is an entry joined to the    *)
(* directory it was listed from.                                           *)
(* Fails: a load that throws has already replaced currentDirectory, and    *)
(* the entries of the directory loaded before are then addressed in the    *)
(* new one.                                                                *)
(***************************************************************************)
C24_EntriesListedFromCurrentDirectory ==
  /\ (entries # <<>>) => last.listedFrom = currentDirectory
  /\ IsBatch =>
        \A k \in 1..Len(PrimitiveCalls) :
           /\ k <= Len(Snapshot)
           /\ PrimitiveCalls[k].a = Join(last.listedFrom, Snapshot[k])

(***************************************************************************)
(* C25.  When entries or the selection is not empty, currentDirectory is   *)
(* not null; a batch operation that joins currentDirectory to a name (in   *)
(* the resolution or in its loop) does it with a directory that is not     *)
(* null.                                                                   *)
(***************************************************************************)
C25_DirectoryNotNull ==
  /\ (entries # <<>> \/ selectedEntries # <<>>) => currentDirectory # NULL
  /\ (IsBatch /\ last.calls # <<>>) => last.pre.dir # NULL
  /\ (IsBatch /\ last.pre.sel # <<>>) => last.pre.dir # NULL

\* a copy that generated its destination under the current directory
C25_Witness ==
  /\ last.op = "copySelection" /\ last.outcome = "returned"
  /\ last.arg = UNDEFINED
  /\ last.pre.dir \in Dirs
  /\ last.destinationPath = Join(last.pre.dir, "bleu-riviere")
  /\ PrimitiveSources = << Join(last.pre.dir, Snapshot[1]) >>

(***************************************************************************)
(* C26.  When createDirectory throws in copySelection or moveSelection,    *)
(* the call throws that error, no copy or move is invoked, no per-entry    *)
(* error is recorded, and currentDirectory, entries and the selection are  *)
(* as they were.                                                           *)
(***************************************************************************)
C26_CreateDirectoryFailure ==
  (last.op \in { "copySelection", "moveSelection" } /\ CreateDirectoryFailed) =>
     /\ last.outcome = "threw"
     /\ \E k \in 1..Len(last.calls) :
           /\ last.calls[k].fn = "createDirectory"
           /\ last.calls[k].ret = last.error
           /\ k = Len(last.calls)
     /\ Len(PrimitiveCalls) = 0
     /\ last.errors = <<>>
     /\ StateUnchanged

\* createDirectory throws on a generated destination with two entries
\* selected
C26_Witness ==
  /\ last.op = "copySelection" /\ last.outcome = "threw"
  /\ CreateDirectoryFailed
  /\ CollaboratorCalls("exists") = 1
  /\ Len(selectedEntries) = 2


(***************************************************************************)
(* C28.  A name that has been moved or deleted with success is no longer   *)
(* in entries, and a name that is not in entries stays out of entries and  *)
(* of the selection, select of it throwing "not found" and selectAll not   *)
(* selecting it, through every call but a listEntries that returns a       *)
(* listing with that name; a name copied with success stays in entries and *)
(* a select of it returns.                                                 *)
(***************************************************************************)
C28_RemovedStaysUnselectable ==
  [][ \A n \in Names :
        /\ (/\ last'.op \in { "moveSelection", "deleteSelection" }
            /\ last'.outcome = "returned"
            /\ \E k \in 1..Len(last'.calls) :
                  /\ last'.calls[k].fn \in { "move", "delete" }
                  /\ last'.calls[k].a = Join(currentDirectory, n)
                  /\ last'.calls[k].ret = "ok")
              => n \notin Range(entries')
        /\ (/\ n \notin Range(entries)
            /\ ~(/\ last'.op = "listEntries"
                 /\ last'.outcome = "returned"
                 /\ n \in Range(last'.listing)))
              => /\ n \notin Range(entries')
                 /\ n \notin Range(selectedEntries')
                 /\ (last'.op = "select" /\ last'.arg = n) =>
                       /\ last'.outcome = "threw"
                       /\ last'.error = NotFound(n)
        /\ (/\ last.op = "copySelection" /\ last.outcome = "returned"
            /\ PrimitiveOk(n))
              => /\ n \in Range(entries)
                 /\ (last'.op = "select" /\ last'.arg = n) =>
                       /\ last'.outcome = "returned"
                       /\ n \in Range(selectedEntries')
    ]_vars

\* a move has just removed b.txt from entries and left another entry
C28_Witness ==
  /\ last.op = "moveSelection" /\ last.outcome = "returned"
  /\ PrimitiveOk("b.txt")
  /\ "b.txt" \in Range(last.pre.entries)
  /\ "b.txt" \notin Range(entries)
  /\ "b.txt" \notin Range(AddAll(selectedEntries, entries))
  /\ entries # <<>>

\* selectAll while a name is out of entries: the name is not selected
C28_WitnessSelectAll ==
  /\ last.op = "selectAll"
  /\ last.listedFrom # NULL
  /\ Len(entries) = 2
  /\ "b.txt" \notin Range(entries)
  /\ Range(selectedEntries) = Range(entries)

(***************************************************************************)
(* C29.  select, deselect, selectAll and deselectAll leave entries and     *)
(* currentDirectory as they were.  copySelection, moveSelection and        *)
(* deleteSelection leave currentDirectory as it was, add no name to        *)
(* entries and none to the selection, and keep the order of the names      *)
(* that stay in entries.                                                   *)
(***************************************************************************)
C29_Frame ==
  /\ (last.op \in { "select", "deselect", "selectAll", "deselectAll" }) =>
        /\ entries = last.pre.entries
        /\ currentDirectory = last.pre.dir
  /\ IsBatch =>
        /\ currentDirectory = last.pre.dir
        /\ Range(entries) \subseteq Range(last.pre.entries)
        /\ Range(selectedEntries) \subseteq Range(last.pre.sel)
        /\ entries = SelectSeq(last.pre.entries, LAMBDA e : e \in Range(entries))
        /\ selectedEntries = SelectSeq(last.pre.sel, LAMBDA e : e \in Range(selectedEntries))

\* the middle entry of three is moved away, the others stay in their order
C29_Witness ==
  /\ last.op = "moveSelection" /\ last.outcome = "returned"
  /\ last.pre.entries = DirectoryOrder
  /\ entries = << DirectoryOrder[1], DirectoryOrder[3] >>

(***************************************************************************)
(* C30.  Until a listEntries has returned, currentDirectory is null and    *)
(* entries and the selection are empty; select throws "not found",         *)
(* selectAll selects nothing, and copySelection, moveSelection and         *)
(* deleteSelection throw "nothing selected" without a collaborator call.   *)
(* Fails: a listEntries that throws has assigned currentDirectory.         *)
(***************************************************************************)
C30_BeforeFirstLoad ==
  (last.listedFrom = NULL) =>
     /\ currentDirectory = NULL
     /\ entries = <<>>
     /\ selectedEntries = <<>>
     /\ (last.op = "select") =>
           last.outcome = "threw" /\ last.error = NotFound(last.arg)
     /\ IsBatch =>
           /\ last.outcome = "threw"
           /\ last.error = NothingSelected
           /\ last.calls = <<>>


(***************************************************************************)
(* C27.  When one batch operation is asked again and again while something *)
(* is selected, and each selected entry's primitive succeeds in some       *)
(* invocation, the selection becomes empty; from one invocation to the     *)
(* next the selection never gains a name, only selected entries are        *)
(* attempted, and an entry whose primitive has succeeded is not attempted  *)
(* again.                                                                  *)
(***************************************************************************)
C27_RetryConverges ==
  /\ <>(selectedEntries = <<>>)
  /\ [][ /\ Range(selectedEntries') \subseteq Range(selectedEntries)
         /\ \A k \in 1..Len(last'.calls) :
               last'.calls[k].fn \in { "copy", "move", "delete" } =>
                  /\ \E e \in Range(selectedEntries) :
                        last'.calls[k].a = Join(currentDirectory, e)
                  /\ \A e \in Names :
                        (IsBatch /\ PrimitiveOk(e)) =>
                           last'.calls[k].a # Join(currentDirectory, e)
         /\ \A e \in Range(selectedEntries) \ Range(selectedEntries') :
               \E k \in 1..Len(last'.calls) :
                  /\ last'.calls[k].a = Join(currentDirectory, e)
                  /\ last'.calls[k].ret = "ok"
     ]_vars

\* the third invocation empties a selection of three, one entry at a time
C27_Witness ==
  /\ IsBatch /\ last.outcome = "returned"
  /\ last.retry.is
  /\ Len(last.retry.errors) = 2
  /\ Len(Snapshot) = 2
  /\ last.errors = <<>>
  /\ selectedEntries = <<>>

====
